---- MODULE Spec2Model ----
(***************************************************************************)
(* Receive pipeline of waterslide: onBlockCh1 (SBN policy), slipDecodeBlock *)
(* (SLIP destuffer), decodePacket (codec decode, overrun rule) and the      *)
(* decode ring between the syncer and the audio callback; and the secure    *)
(* endpoint adapter of endpoint-secure.c (sendBufToAll, tickLoop,           *)
(* onPeerPacket, endpointsec_init, endpointsec_deinit) with its threads;    *)
(* and the monitor of monitor.cpp (openHandler, closeHandler, statsLoop,    *)
(* mapStreamMeterBins).                                                     *)
(***************************************************************************)
EXTENDS Integers, Sequences, FiniteSets, TLC

VARIABLES
  audioEncoding,         \* receiver.c:23  AUDIO_ENCODING_OPUS or AUDIO_ENCODING_PCM
  networkChannelCount,   \* receiver.c:24
  maxEncodedPacketSize,  \* receiver.c:25
  audioFrameSize,        \* receiver.c:25
  decodeRingMaxSize,     \* receiver.c:25
  channel1,              \* receiver.c:18  [symbolsPerBlock, symbolLen]
  sbnLast,               \* receiver.c:21
  audioEncodedBuf,       \* receiver.c:27  the first audioEncodedBufPos bytes of the scratch
  audioEncodedBufPos,    \* receiver.c:28
  slipEsc,               \* receiver.c:29
  overrun,               \* receiver.c:33  static local of decodePacket
  decodeRing,            \* receiver.c:19  number of samples held by the ring
  stats,                 \* counters of the globals registry
  blockLog,              \* history: one record per onBlockCh1 call
  decodeLog,             \* history: the decodePacket calls of the latest onBlockCh1 call
  frameCount,            \* history: number of decodePacket calls so far
  sender,                \* environment: the sender's frame and the blocks still in flight
  endpointCount,         \* endpoint-secure.c:18
  threadsRunning,        \* endpoint-secure.c:22
  tunnel,                \* endpoint-secure.c:23  "NULL", "live" or "freed" (dangling)
  bytesOut,              \* statsEndpoints.bytesOut, one counter per endpoint
  bytesIn,               \* statsEndpoints.bytesIn, one counter per endpoint
  pc,                    \* the position of the tick thread and of each receive thread
  channelLock,           \* demux: the receive thread holding the lock of channel 1
  initPc,                \* the step receiver_init / endpointsec_init is at
  initRet,               \* what receiver_init and endpointsec_init returned, and why
  held,                  \* the resources acquired and not released
  netLog,                \* history: the calls of the latest endpoint handler
  wsClient,              \* monitor.cpp:25  NULL or the WebSocket of the client
  statsPc,               \* the position of the stats thread in statsLoop
  streamMeterBinsRaw,    \* monitor.cpp:101
  streamMeterBinsMapped, \* monitor.cpp:102
  wsOpen,                \* environment: the WebSockets the server holds open
  wsSent                 \* history: the WebSocket argument of the latest uws_wsSend

vars == <<audioEncoding, networkChannelCount, maxEncodedPacketSize, audioFrameSize,
          decodeRingMaxSize, channel1, sbnLast, audioEncodedBuf, audioEncodedBufPos,
          slipEsc, overrun, decodeRing, stats, blockLog, decodeLog, frameCount, sender,
          endpointCount, threadsRunning, tunnel, bytesOut, bytesIn, pc, channelLock,
          initPc, initRet, held, netLog, wsClient, statsPc, streamMeterBinsRaw,
          streamMeterBinsMapped, wsOpen, wsSent>>

config == <<audioEncoding, networkChannelCount, maxEncodedPacketSize, audioFrameSize,
            decodeRingMaxSize, channel1>>

\* The state of endpoint-secure.c, of the demux channel lock and of the init path
endpointVars == <<endpointCount, threadsRunning, tunnel, bytesOut, bytesIn, pc,
                  channelLock, initPc, initRet, held, netLog>>

\* The state of monitor.cpp and of its WebSocket server
monitorVars == <<wsClient, statsPc, streamMeterBinsRaw, streamMeterBinsMapped,
                 wsOpen, wsSent>>

\* The state of receiver.c behind onBlockCh1 and its histories
receiverVars == <<sbnLast, audioEncodedBuf, audioEncodedBufPos, slipEsc, overrun,
                  decodeRing, stats, blockLog, decodeLog, frameCount>>

----------------------------------------------------------------------------
(* Bytes of the SLIP framing *)

SLIP_END == 192
SLIP_ESC == 219
SLIP_ESC_END == 220
SLIP_ESC_ESC == 221
SlipBytes == {SLIP_END, SLIP_ESC, SLIP_ESC_END, SLIP_ESC_ESC}

\* A byte the destuffer treats as plain data
DataByte == CHOOSE b \in 0..255 : b \notin SlipBytes

\* The payload bytes the model draws from: the four bytes the destuffer
\* distinguishes and one ordinary data byte.
Bytes == SlipBytes \cup {DataByte}

AUDIO_ENCODING_OPUS == "OPUS"
AUDIO_ENCODING_PCM == "PCM"

\* globals_add1ui on an unsigned int counter. A run of the model adds at most
\* 254 per block, so the counter stays far below its 2^32 wrap.
Add1ui(x, n) == x + n

RECURSIVE SeqsOfLen(_, _)
SeqsOfLen(S, n) ==
  IF n = 0 THEN {<<>>}
  ELSE {Append(s, b) : s \in SeqsOfLen(S, n - 1), b \in S}

RECURSIVE SeqsUpTo(_, _)
SeqsUpTo(S, n) ==
  IF n = 0 THEN {<<>>} ELSE SeqsOfLen(S, n) \cup SeqsUpTo(S, n - 1)

----------------------------------------------------------------------------
(* syncer_enqueueBuf and the codecs *)

\* The number of frames the resampler turns one codec frame into.
ResampleSlack == 1
ResampledFrames == audioFrameSize .. (audioFrameSize + ResampleSlack)

\* Results of opus_multistream_decode_float: the frame size, or an error code.
OpusResults == {audioFrameSize, -1}

\* Results of pcm_decode: the sample count, -3 (CRC mismatch) or another error.
PcmResults == {networkChannelCount * audioFrameSize, -3, -1}

CodecResults == IF audioEncoding = AUDIO_ENCODING_OPUS THEN OpusResults ELSE PcmResults
CodecOk == IF audioEncoding = AUDIO_ENCODING_OPUS
           THEN audioFrameSize ELSE networkChannelCount * audioFrameSize

\* syncer_enqueueBuf: pushes outFrames resampled frames, or drops them all and
\* counts an overrun when they do not fit.
syncer_enqueueBuf(ring, outFrames) ==
  LET totalSamples == networkChannelCount * outFrames IN
  IF ring + totalSamples > decodeRingMaxSize
  THEN [ring |-> ring, result |-> -2, overruns |-> 1]
  ELSE [ring |-> ring + totalSamples, result |-> outFrames, overruns |-> 0]

----------------------------------------------------------------------------
(* decodePacket *)

\* Mutant: the ring is compared with its full size
OverrunHold_FullSize(ovr, ringCurrentSize) ==
  ovr /\ ringCurrentSize > decodeRingMaxSize

\* Mutant: the flag is never cleared
OverrunHold_Sticky(ovr, ringCurrentSize) == ovr

\* receiver.c:57-60: an overrun receiver holds back while the ring is above half
OverrunHold(ovr, ringCurrentSize) ==
  ovr /\ ringCurrentSize > decodeRingMaxSize \div 2

\* Mutant: a dropped push leaves the flag alone
OverrunAfterEnqueue_Never(result) == FALSE

\* receiver.c:66-67: the flag is set when the syncer dropped the push
OverrunAfterEnqueue(result) == result = -2

\* s: [buf, pos, esc, overrun, ring, stats, log]; frame: the codec frame;
\* codecResult: what the codec returns for it; outFrames: what the resampler makes of it.
\* The log entry of a call: the frame, what the codec returned (codec), the flag
\* and the ring size it met, what it returned and how many samples it pushed.
decodePacket(s, frame, codecResult, outFrames) ==
  LET ringCurrentSize == s.ring
      entry == [frame |-> frame, codec |-> codecResult, overrunIn |-> s.overrun,
                ringIn |-> ringCurrentSize, result |-> 0, pushed |-> 0]
  IN
  IF audioEncoding = AUDIO_ENCODING_OPUS /\ codecResult # audioFrameSize
  THEN [s EXCEPT !.stats.codecErrorCount = Add1ui(@, 1),
                 !.log = Append(@, [entry EXCEPT !.result = -1])]
  ELSE IF audioEncoding = AUDIO_ENCODING_PCM
          /\ codecResult # networkChannelCount * audioFrameSize
  THEN [s EXCEPT !.stats.crcFailCount = IF codecResult = -3 THEN Add1ui(@, 1) ELSE @,
                 !.log = Append(@, [entry EXCEPT !.result = -2])]
  ELSE IF OverrunHold(s.overrun, ringCurrentSize)
  THEN [s EXCEPT !.log = Append(@, entry)]
  ELSE LET r == syncer_enqueueBuf(s.ring, outFrames) IN
       [s EXCEPT !.overrun = OverrunAfterEnqueue(r.result),
                 !.ring = r.ring,
                 !.stats.bufferOverrunCount = Add1ui(@, r.overruns),
                 !.log = Append(@, [entry EXCEPT !.result = r.result,
                                                 !.pushed = r.ring - s.ring])]

\* Mutant: the channel count is left out of the sample count
enqueueSilence_Frames(ring, frameCnt, channels, ringMaxSize) ==
  IF frameCnt < 0 THEN [ring |-> ring, result |-> -1]
  ELSE IF ring + frameCnt > ringMaxSize
       THEN [ring |-> ring, result |-> -2]
       ELSE [ring |-> ring + frameCnt, result |-> frameCnt]

\* receiver.c:72-86
enqueueSilence(ring, frameCnt, channels, ringMaxSize) ==
  IF frameCnt < 0 THEN [ring |-> ring, result |-> -1]
  ELSE LET totalSamples == channels * frameCnt IN
       IF ring + totalSamples > ringMaxSize
       THEN [ring |-> ring, result |-> -2]
       ELSE [ring |-> ring + totalSamples, result |-> frameCnt]

----------------------------------------------------------------------------
(* slipDecodeBlock *)

\* Mutant: the last slot of the scratch is never used
StoreByte_OffByOne(s, b, err) ==
  IF s.pos + 1 >= maxEncodedPacketSize
  THEN [s EXCEPT !.result = err]
  ELSE [s EXCEPT !.buf = Append(@, b), !.pos = @ + 1]

\* Mutant: the scratch has no limit
StoreByte_NoLimit(s, b, err) ==
  [s EXCEPT !.buf = Append(@, b), !.pos = @ + 1]

\* Stores byte b at the scratch position, or fails with code err when the
\* scratch is full (receiver.c:92-93, 95-96, 114-115).
StoreByte(s, b, err) ==
  IF s.pos >= maxEncodedPacketSize
  THEN [s EXCEPT !.result = err]
  ELSE [s EXCEPT !.buf = Append(@, b), !.pos = @ + 1]

\* Mutant: the two escape codes are swapped
SlipEscaped_Swapped(s, b) ==
  IF b = SLIP_ESC_END
  THEN LET t == StoreByte(s, SLIP_ESC, -1) IN
       IF t.result < 0 THEN t ELSE [t EXCEPT !.esc = FALSE]
  ELSE IF b = SLIP_ESC_ESC
  THEN LET t == StoreByte(s, SLIP_END, -2) IN
       IF t.result < 0 THEN t ELSE [t EXCEPT !.esc = FALSE]
  ELSE [s EXCEPT !.result = -3]

\* receiver.c:90-102: the byte after an escape
SlipEscaped(s, b) ==
  IF b = SLIP_ESC_END
  THEN LET t == StoreByte(s, SLIP_END, -1) IN
       IF t.result < 0 THEN t ELSE [t EXCEPT !.esc = FALSE]
  ELSE IF b = SLIP_ESC_ESC
  THEN LET t == StoreByte(s, SLIP_ESC, -2) IN
       IF t.result < 0 THEN t ELSE [t EXCEPT !.esc = FALSE]
  ELSE [s EXCEPT !.result = -3]

\* One iteration of the loop of slipDecodeBlock on byte b. env gives, per
\* decodePacket call of this block, the codec's result and the resampler's output.
SlipByte(s, b, env) ==
  IF s.esc THEN SlipEscaped(s, b)
  ELSE IF b = SLIP_END
  THEN IF s.pos = 0 THEN s
       ELSE LET k == Len(s.log) + 1
                t == decodePacket(s, s.buf, env.codec[k], env.resamp[k])
            IN [t EXCEPT !.buf = <<>>, !.pos = 0]
  ELSE IF b = SLIP_ESC
  THEN [s EXCEPT !.esc = TRUE]
  ELSE StoreByte(s, b, -4)

RECURSIVE slipDecodeFrom(_, _, _, _, _)
slipDecodeFrom(s, buf, i, bufLen, env) ==
  IF i > bufLen THEN [s EXCEPT !.result = bufLen]
  ELSE LET t == SlipByte(s, buf[i], env) IN
       IF t.result < 0 THEN t ELSE slipDecodeFrom(t, buf, i + 1, bufLen, env)

slipDecodeBlock(s, buf, bufLen, env) == slipDecodeFrom(s, buf, 1, bufLen, env)

----------------------------------------------------------------------------
(* onBlockCh1 *)

\* Mutant: the forward wrap is not recognised
SbnDiff_NoWrap(last, sbn) == sbn - last

\* receiver.c:127-133
SbnDiff(last, sbn) ==
  IF last - sbn > 128 THEN 256 - last + sbn ELSE sbn - last

\* Mutant: a block after a forward gap is decoded as well
TryDecode_GapDecodes(last, sbnDiff) ==
  IF last # -1 /\ (sbnDiff = 0 \/ sbnDiff < 0) THEN FALSE ELSE TRUE

\* receiver.c:124-151: whether the block is handed to the destuffer
TryDecode(last, sbnDiff) ==
  IF last # -1 /\ (sbnDiff = 0 \/ sbnDiff < 0 \/ sbnDiff > 1) THEN FALSE ELSE TRUE

\* Mutant: a backwards block counts as a duplicate too
DupIncrement_Backwards(last, sbnDiff) ==
  IF last # -1 /\ sbnDiff <= 0 THEN 1 ELSE 0

\* receiver.c:135-137
DupIncrement(last, sbnDiff) ==
  IF last # -1 /\ sbnDiff = 0 THEN 1 ELSE 0

\* Mutant: a forward gap counts the arriving block as dropped too
OooIncrement_WholeDiff(last, sbnDiff) ==
  IF last = -1 \/ sbnDiff = 0 THEN 0
  ELSE IF sbnDiff < 0 THEN 1
  ELSE IF sbnDiff > 1 THEN sbnDiff
  ELSE 0

\* receiver.c:139-146
OooIncrement(last, sbnDiff) ==
  IF last = -1 \/ sbnDiff = 0 THEN 0
  ELSE IF sbnDiff < 0 THEN 1
  ELSE IF sbnDiff > 1 THEN sbnDiff - 1
  ELSE 0

\* receiver.c:143-148: a forward gap resets the destuffer
GapReset(last, sbnDiff) == last # -1 /\ sbnDiff > 1

\* Mutant: sbnLast follows only the blocks that are decoded
NextSbnLast_DecodedOnly(last, sbn, tryDecode) == IF tryDecode THEN sbn ELSE last

\* receiver.c:153
NextSbnLast(last, sbn, tryDecode) == sbn

\* Mutant: a destuffer error leaves the scratch and the escape flag as they are
DestufferFailed_Never(tryDecode, result) == FALSE

\* receiver.c:158-159: the block was handed to the destuffer and it failed
DestufferFailed(tryDecode, result) == tryDecode /\ result < 0

BlockLen == channel1.symbolsPerBlock * channel1.symbolLen

\* The inputs a block's decodePacket calls may need: at most one frame ends
\* per two bytes, plus the frame carried over from the block before.
MaxCalls == (BlockLen + 1) \div 2
DecodeEnvs == [codec : [1..MaxCalls -> CodecResults], resamp : [1..MaxCalls -> ResampledFrames]]
OkEnv == [codec |-> [k \in 1..MaxCalls |-> CodecOk],
          resamp |-> [k \in 1..MaxCalls |-> audioFrameSize]]

\* What one call of onBlockCh1 leaves behind: the statics of receiver.c, the
\* decodePacket calls it made (log) and its record for the block history (entry)
onBlockCh1Result(buf, sbn, env) ==
  LET first == sbnLast = -1
      sbnDiff == IF first THEN 0 ELSE SbnDiff(sbnLast, sbn)
      tryDecode == TryDecode(sbnLast, sbnDiff)
      reset == GapReset(sbnLast, sbnDiff)
      s0 == [buf |-> IF reset THEN <<>> ELSE audioEncodedBuf,
             pos |-> IF reset THEN 0 ELSE audioEncodedBufPos,
             esc |-> IF reset THEN FALSE ELSE slipEsc,
             overrun |-> overrun, ring |-> decodeRing,
             stats |-> [stats EXCEPT
                          !.dupBlockCount = Add1ui(@, DupIncrement(sbnLast, sbnDiff)),
                          !.oooBlockCount = Add1ui(@, OooIncrement(sbnLast, sbnDiff))],
             log |-> <<>>, result |-> 0]
      s1 == IF tryDecode THEN slipDecodeBlock(s0, buf, BlockLen, env) ELSE s0
      failed == DestufferFailed(tryDecode, s1.result)
  IN
  [sbnLast |-> NextSbnLast(sbnLast, sbn, tryDecode),
   buf |-> IF failed THEN <<>> ELSE s1.buf,
   pos |-> IF failed THEN 0 ELSE s1.pos,
   esc |-> IF failed THEN FALSE ELSE s1.esc,
   overrun |-> s1.overrun,
   ring |-> s1.ring,
   stats |-> s1.stats,
   log |-> s1.log,
   entry |-> [sbn |-> sbn, first |-> first, sbnDiff |-> sbnDiff,
              slipDecoded |-> tryDecode, result |-> s1.result]]

\* The statics of receiver.c after a call of onBlockCh1 that left r behind
onBlockCh1State(r) ==
  /\ sbnLast' = r.sbnLast
  /\ audioEncodedBuf' = r.buf
  /\ audioEncodedBufPos' = r.pos
  /\ slipEsc' = r.esc
  /\ overrun' = r.overrun
  /\ decodeRing' = r.ring
  /\ stats' = r.stats
  /\ decodeLog' = r.log
  /\ UNCHANGED config

onBlockCh1(buf, sbn, env) ==
  LET r == onBlockCh1Result(buf, sbn, env) IN
  /\ Len(buf) = BlockLen
  /\ onBlockCh1State(r)
  /\ frameCount' = frameCount + Len(r.log)
  /\ blockLog' = Append(blockLog, r.entry)

----------------------------------------------------------------------------
(* The sender side and the audio callback *)

\* utils_slipEncode: C0 becomes DB DC, DB becomes DB DD, and the frame is
\* terminated by END.
RECURSIVE SlipStuff(_)
SlipStuff(x) ==
  IF x = <<>> THEN <<>>
  ELSE (IF Head(x) = SLIP_END THEN <<SLIP_ESC, SLIP_ESC_END>>
        ELSE IF Head(x) = SLIP_ESC THEN <<SLIP_ESC, SLIP_ESC_ESC>>
        ELSE <<Head(x)>>) \o SlipStuff(Tail(x))

utils_slipEncode(x) == SlipStuff(x) \o <<SLIP_END>>

\* The sender cuts its SLIP stream into blocks of n bytes; the last block is
\* filled up with END bytes.
RECURSIVE Blocks(_, _)
Blocks(stream, n) ==
  IF stream = <<>> THEN <<>>
  ELSE IF Len(stream) <= n
  THEN <<stream \o [i \in 1..(n - Len(stream)) |-> SLIP_END]>>
  ELSE <<SubSeq(stream, 1, n)>> \o Blocks(SubSeq(stream, n + 1, Len(stream)), n)

\* x: the frame the sender encoded; sbn: the SBN of its next block;
\* blocks: the blocks not yet delivered; sent: the block delivered last
NoSender == [x |-> <<>>, sbn |-> 0, blocks |-> <<>>, sent |-> <<>>]

\* The audio callback: for each of frames output frames and each channel one
\* sample is dequeued, or zero is substituted and an underrun is counted.
audioCallback(ring, frames) ==
  LET samples == networkChannelCount * frames
      dequeued == IF ring < samples THEN ring ELSE samples
  IN [ring |-> ring - dequeued, underruns |-> samples - dequeued]

----------------------------------------------------------------------------
(* endpoint-secure.c: the tunnel adapter *)

WIREGUARD_DONE == "WIREGUARD_DONE"
WRITE_TO_NETWORK == "WRITE_TO_NETWORK"
WIREGUARD_ERROR == "WIREGUARD_ERROR"
WRITE_TO_TUNNEL_IPV4 == "WRITE_TO_TUNNEL_IPV4"
WRITE_TO_TUNNEL_IPV6 == "WRITE_TO_TUNNEL_IPV6"

Endpoints == 0 .. (endpointCount - 1)

\* The sum of a counter over the endpoints
RECURSIVE TotalFrom(_, _)
TotalFrom(counter, i) ==
  IF i >= endpointCount THEN 0 ELSE counter[i] + TotalFrom(counter, i + 1)
Total(counter) == TotalFrom(counter, 0)

\* No receive thread holds the channel lock
NoThread == -1

\* The latest handler's history: the state of the tunnel when it was called
\* into, the wireguard_read calls (input length and result), the sendBufToAll
\* calls and the packets handed to the demux
NoCall == [handler |-> "none", epIndex |-> -1, bufLen |-> 0, tunnel |-> "NULL",
           reads |-> <<>>, sends |-> <<>>, handed |-> <<>>]

\* Mutant: a failed send ends the loop
AfterSendError_Return(i) == endpointCount

\* endpoint-secure.c:31-35: after a send that did not succeed the loop goes on
\* with the next endpoint
AfterSendError(i) == i + 1

\* endpoint-secure.c:27-41. s: [out, attempted], the bytesOut counters and the
\* endpoints a send was attempted on; errs[i]: what wsocket_sendToPeer returns
\* on endpoint i (0, -1 while the peer is not known, another value on error)
RECURSIVE sendBufToAllFrom(_, _, _, _)
sendBufToAllFrom(s, i, bufLen, errs) ==
  IF i >= endpointCount THEN s
  ELSE LET err == errs[i]
           s1 == [s EXCEPT !.attempted = @ \cup {i}]
       IN
       IF err = -1 THEN sendBufToAllFrom(s1, AfterSendError(i), bufLen, errs)
       ELSE IF err # 0 THEN sendBufToAllFrom(s1, AfterSendError(i), bufLen, errs)
       ELSE sendBufToAllFrom([s1 EXCEPT !.out[i] = Add1ui(@, bufLen + 28)],
                             i + 1, bufLen, errs)

\* One call of sendBufToAll, with its record for the history
sendBufToAll(out, bufLen, errs) ==
  LET s == sendBufToAllFrom([out |-> out, attempted |-> {}], 0, bufLen, errs) IN
  [out |-> s.out,
   send |-> [bufLen |-> bufLen, errs |-> errs, before |-> out, after |-> s.out,
             attempted |-> s.attempted]]

\* Mutant: the plaintext is handed on whatever its length
HandToDemux_AnySize(result) == TRUE

\* endpoint-secure.c:101: _onPacket is set by endpointsec_init, so what decides
\* is the length of the plaintext
HandToDemux(result) == result.size > 20

\* endpoint-secure.c:90-116, from the k-th wireguard_read call on.
\* s: [out, reads, sends, handed]; results[k]: what the k-th call returns;
\* errs[k]: what the sockets return if its reply is sent
RECURSIVE onPeerPacketFrom(_, _, _, _, _, _)
onPeerPacketFrom(s, k, bufLen, epIndex, results, errs) ==
  LET result == results[k]
      s1 == [s EXCEPT !.reads = Append(@, [bufLen |-> bufLen, result |-> result])]
  IN
  IF result.op = WIREGUARD_ERROR THEN s1
  ELSE IF result.op = WRITE_TO_TUNNEL_IPV4
  THEN IF HandToDemux(result)
       THEN [s1 EXCEPT !.handed = Append(@, [offset |-> 20, len |-> result.size - 20,
                                             epIndex |-> epIndex])]
       ELSE s1
  ELSE IF result.op = WRITE_TO_NETWORK
  THEN LET r == sendBufToAll(s1.out, result.size, errs[k])
           s2 == IF result.size > 0
                 THEN [s1 EXCEPT !.out = r.out, !.sends = Append(@, r.send)]
                 ELSE s1
       IN IF k < Len(results)
          THEN onPeerPacketFrom(s2, k + 1, 0, epIndex, results, errs)
          ELSE s2
  ELSE s1

\* endpoint-secure.c:80-117 without the bytesIn count of line 83
onPeerPacket(out, bufLen, epIndex, results, errs) ==
  onPeerPacketFrom([out |-> out, reads |-> <<>>, sends |-> <<>>, handed |-> <<>>],
                   1, bufLen, epIndex, results, errs)

\* All sequences of engine results of at most n calls: replies for the network,
\* ended by a result that is not one
RECURSIVE ResultSeqs(_, _, _)
ResultSeqs(replies, last, n) ==
  IF n <= 1 THEN {<<r>> : r \in last}
  ELSE {<<r>> : r \in last}
       \cup {<<r>> \o rest : r \in replies, rest \in ResultSeqs(replies, last, n - 1)}

\* The resources the two init functions acquire
Res(name, i) == [res |-> name, idx |-> i]
ReceiverResources(enc) ==
  {Res(n, 0) : n \in {"sampleBuf", "audioEncodedBuf", "decodeRingBuf", "demux",
                      "audio", "audioStream", "syncer"}}
  \cup (IF enc = AUDIO_ENCODING_OPUS THEN {Res("decoder", 0)} ELSE {})
EndpointResources(n) ==
  {Res(r, 0) : r \in {"sockets", "discoveryThreads", "wgReadBuf", "tunnel", "tickThread"}}
  \cup {Res(r, i) : r \in {"wsocket", "discoveryThread"}, i \in 0 .. (n - 1)}

\* endpoint-secure.c:131-190: the state after endpointsec_init returned 0 as
\* the last step of receiver_init, with everything acquired still held
endpointsec_init(n) ==
  /\ endpointCount = n
  /\ threadsRunning = TRUE
  /\ tunnel = "live"
  /\ bytesOut = [i \in 0 .. (n - 1) |-> 0]
  /\ bytesIn = [i \in 0 .. (n - 1) |-> 0]
  /\ pc = [tick |-> "tickLoop", recv |-> [i \in 0 .. (n - 1) |-> "recvfrom"]]
  /\ netLog = NoCall
  /\ held = ReceiverResources(audioEncoding) \cup EndpointResources(n)

----------------------------------------------------------------------------
(* receiver_init: the state after a successful initialisation *)

receiver_init(enc, channels, frameSize, opusMaxPacketSize, decodeRingLength, K, L) ==
  /\ audioEncoding = enc
  /\ networkChannelCount = channels
  /\ audioFrameSize = frameSize
  /\ maxEncodedPacketSize = IF enc = AUDIO_ENCODING_OPUS THEN opusMaxPacketSize
                            ELSE 3 * channels * frameSize + 2
  /\ decodeRingMaxSize = channels * decodeRingLength
  /\ channel1 = [chId |-> 1, symbolsPerBlock |-> K, symbolLen |-> L]
  /\ sbnLast = -1
  /\ audioEncodedBuf = <<>>
  /\ audioEncodedBufPos = 0
  /\ slipEsc = FALSE
  /\ overrun = FALSE
  /\ decodeRing = enqueueSilence(0, decodeRingLength \div 2, channels,
                                 channels * decodeRingLength).ring
  /\ stats = [dupBlockCount |-> 0, oooBlockCount |-> 0, codecErrorCount |-> 0,
              crcFailCount |-> 0, bufferOverrunCount |-> 0, bufferUnderrunCount |-> 0]
  /\ blockLog = <<>>
  /\ decodeLog = <<>>
  /\ frameCount = 0
  /\ channelLock = NoThread
  /\ initPc = [fn |-> "running", step |-> 0]
  /\ initRet = [fn |-> "none", cause |-> "none", code |-> 0, receiver |-> 0]

----------------------------------------------------------------------------
(* monitor.cpp: the WebSocket handlers and the stats thread *)

NULL == 0

\* The number of bins of the stream meter
STATS_STREAM_METER_BINS == 3

Bins == 1..STATS_STREAM_METER_BINS

\* monitor.cpp:27-29
openHandler(ws) == wsClient' = ws

\* monitor.cpp:35-37
closeHandler(ws) == wsClient' = NULL

\* monitor.cpp:57-68: the loop over the bins, from bin i on, with the range
\* mm found so far
RECURSIVE BinRangeFrom(_, _, _)
BinRangeFrom(rawBins, i, mm) ==
  IF i > STATS_STREAM_METER_BINS THEN mm
  ELSE BinRangeFrom(rawBins, i + 1,
         IF i = 1 THEN [minBinVal |-> rawBins[i], maxBinVal |-> rawBins[i]]
         ELSE IF rawBins[i] < mm.minBinVal /\ rawBins[i] > 0
         THEN [mm EXCEPT !.minBinVal = rawBins[i]]
         ELSE IF rawBins[i] > mm.maxBinVal
         THEN [mm EXCEPT !.maxBinVal = rawBins[i]]
         ELSE mm)

BinRange(rawBins) == BinRangeFrom(rawBins, 1, [minBinVal |-> 0, maxBinVal |-> 0])

\* monitor.cpp:73-81: the mapped value of one bin, stored into a uint8_t
MapBin(binVal, mm) ==
  IF binVal < mm.minBinVal THEN 0
  ELSE LET mapped == ((255 * (binVal - mm.minBinVal))
                        \div (mm.maxBinVal - mm.minBinVal)) % 256
       IN IF mapped = 0 THEN 1 ELSE mapped

\* monitor.cpp:56-83: the two arrays after the call; sample is what the reads
\* of streamMeterBins returned
mapStreamMeterBins(sample, mappedBins) ==
  LET mm == BinRange(sample) IN
  [rawBins |-> sample,
   mappedBins |-> IF mm.minBinVal = mm.maxBinVal THEN mappedBins
                  ELSE [i \in Bins |-> MapBin(sample[i], mm)]]

\* monitor.cpp:210-221 and 96-106: both threads started, no client yet, the
\* stats thread with its arrays zeroed and about to sleep
monitor_init ==
  /\ wsClient = NULL
  /\ statsPc = "usleep"
  /\ streamMeterBinsRaw = [i \in Bins |-> 0]
  /\ streamMeterBinsMapped = [i \in Bins |-> 0]
  /\ wsOpen = {}
  /\ wsSent = <<>>

----------------------------------------------------------------------------
(* SpecSbn: the SBN policy of onBlockCh1 on arbitrary block orders *)

MaxSbnBlocks == 4
SbnEdge == 2

\* The first block's SBN lies near 0, near the signed boundary 128 or near the
\* wrap at 255; a later block lies at one of these distances (modulo 256) from
\* the block before: duplicate, next, one or two skipped, one back.
StartSbns == (0..SbnEdge) \cup ((128 - SbnEdge)..(128 + SbnEdge)) \cup ((255 - SbnEdge)..255)
SbnDeltas == {0, 1, 2, 3, 255}

SbnInputs == IF sbnLast = -1 THEN StartSbns
             ELSE {(sbnLast + d) % 256 : d \in SbnDeltas}

\* A whole frame, and a frame left unfinished inside an escape.
SbnPayloads == {<<DataByte, SLIP_END>>, <<DataByte, SLIP_ESC>>}

SbnInit ==
  /\ receiver_init(AUDIO_ENCODING_OPUS, 1, 1, 2, 4, 1, 2)
  /\ endpointsec_init(1)
  /\ monitor_init
  /\ sender = NoSender

SbnBlock ==
  /\ Len(blockLog) < MaxSbnBlocks
  /\ \E sbn \in SbnInputs, buf \in SbnPayloads : onBlockCh1(buf, sbn, OkEnv)
  /\ UNCHANGED <<monitorVars, sender, endpointVars>>

SbnNext == SbnBlock

SpecSbn == SbnInit /\ [][SbnNext]_vars

----------------------------------------------------------------------------
(* Reading the history *)

RECURSIVE SeqSum(_)
SeqSum(s) == IF s = <<>> THEN 0 ELSE Head(s) + SeqSum(Tail(s))

Received == Len(blockLog)
SbnSeq == [i \in 1..Received |-> blockLog[i].sbn]
DecodedBlocks == {i \in 1..Received : blockLog[i].slipDecoded}
Later == 2..Received

\* The distance of block i from the block before it, modulo 256
Dist(i) == (blockLog[i].sbn - blockLog[i - 1].sbn) % 256

\* The signed 8-bit wrap of d: the value in -128..127 congruent to d modulo 256
SignedWrap8(d) == ((d + 128) % 256) - 128

----------------------------------------------------------------------------
(* Claims on the SBN policy, checked under SpecSbn *)

\* C1: a block's payload goes to the SLIP destuffer if and only if it is the
\* first block or its computed diff is 1 (it follows the block before it,
\* modulo 256); blocks with diff 0, diff < 0 or diff > 1 are never decoded.
C1_DecodedIffFirstOrNext ==
  \A i \in 1..Received :
    /\ blockLog[i].slipDecoded <=> (i = 1 \/ Dist(i) = 1)
    /\ blockLog[i].slipDecoded <=> (blockLog[i].first \/ blockLog[i].sbnDiff = 1)
    /\ blockLog[i].first <=> (i = 1)

C1_Witness ==
  /\ Received = 4
  /\ blockLog[2].sbnDiff = 1 /\ blockLog[2].slipDecoded
  /\ blockLog[3].sbnDiff > 1 /\ ~blockLog[3].slipDecoded
  /\ blockLog[4].sbnDiff < 0 /\ ~blockLog[4].slipDecoded

\* C2: dupBlockCount goes up by exactly 1 on each block that repeats the SBN
\* of the block before it and is left alone by every other block; a sequence
\* a, a+1, a+1, a+2 (modulo 256) ends with dupBlockCount = 1,
\* oooBlockCount = 0 and three blocks decoded.
C2_DupCountsRepeats ==
  /\ stats.dupBlockCount = Cardinality({i \in Later : blockLog[i].sbn = blockLog[i - 1].sbn})
  /\ \A a \in 0..255 :
       SbnSeq = <<a, (a + 1) % 256, (a + 1) % 256, (a + 2) % 256>>
       => /\ stats.dupBlockCount = 1
          /\ stats.oooBlockCount = 0
          /\ DecodedBlocks = {1, 2, 4}

C2_Witness ==
  /\ SbnSeq = <<255, 0, 0, 1>>
  /\ stats.dupBlockCount = 1

\* What the blocks received add to oooBlockCount by the rule of the table
OooByRule == SeqSum([i \in 1..Received |->
               IF blockLog[i].first THEN 0
               ELSE IF blockLog[i].sbnDiff < 0 THEN 1
               ELSE IF blockLog[i].sbnDiff > 1 THEN blockLog[i].sbnDiff - 1
               ELSE 0])

\* C3 (as claimed): oooBlockCount goes up by 1 on a block with diff < 0 and by
\* diff-1 on a block with diff > 1, which also resets the destuffer, and is
\* left alone otherwise; a sequence a, a+2, a+1 (modulo 256) ends with
\* oooBlockCount = 2 and only the first block decoded.
C3_ReorderCountsTwo ==
  /\ stats.oooBlockCount = OooByRule
  /\ (Received >= 1 /\ ~blockLog[Received].first /\ blockLog[Received].sbnDiff > 1)
       => (audioEncodedBufPos = 0 /\ ~slipEsc)
  /\ \A a \in 0..255 :
       SbnSeq = <<a, (a + 2) % 256, (a + 1) % 256>>
       => /\ stats.oooBlockCount = 2
          /\ DecodedBlocks = {1}

\* C4 (as claimed): dupBlockCount + oooBlockCount is at most the number of
\* blocks received minus 1.
C4_CountsBelowBlocks ==
  Received >= 1 => stats.dupBlockCount + stats.oooBlockCount <= Received - 1

\* The SBNs a forward gap skips beyond the first one
ExtraSkipped == SeqSum([i \in 1..Received |->
                  IF ~blockLog[i].first /\ blockLog[i].sbnDiff > 2
                  THEN blockLog[i].sbnDiff - 2 ELSE 0])

\* C4 (amended): dupBlockCount + oooBlockCount is at most the number of blocks
\* received minus 1, plus diff-2 for every block whose computed diff exceeds 2.
C4_CountsBelowBlocksPlusSkipped ==
  Received >= 1 =>
    stats.dupBlockCount + stats.oooBlockCount <= (Received - 1) + ExtraSkipped

C4_Witness ==
  /\ Received = 3
  /\ blockLog[2].sbnDiff = 3
  /\ blockLog[3].sbnDiff = 0
  /\ stats.dupBlockCount + stats.oooBlockCount = 3

\* C5 (as claimed): the SBN delta onBlockCh1 computes is the signed 8-bit wrap
\* of sbn - sbnLast, the value in -128..127 congruent to it modulo 256.
C5_DiffIsSignedWrap ==
  \A i \in Later :
    blockLog[i].sbnDiff = SignedWrap8(blockLog[i].sbn - blockLog[i - 1].sbn)

\* C6: blocks whose SBNs are consecutive modulo 256, from any first SBN and
\* across the 255 -> 0 wrap, are all SLIP-decoded and count neither as
\* duplicate nor as out of order.
C6_ConsecutiveAllDecoded ==
  (\A i \in Later : Dist(i) = 1)
  => /\ DecodedBlocks = 1..Received
     /\ stats.dupBlockCount = 0
     /\ stats.oooBlockCount = 0

C6_Witness ==
  /\ SbnSeq = <<254, 255, 0, 1>>
  /\ DecodedBlocks = 1..4

\* C7: every call leaves sbnLast at the SBN of the block just delivered,
\* whatever its diff, so sbnLast lies in 0..255 once a block has arrived.
C7_SbnLastIsLatest ==
  IF Received = 0 THEN sbnLast = -1
  ELSE sbnLast = blockLog[Received].sbn /\ sbnLast \in 0..255

C7_Witness ==
  /\ Received = 4
  /\ blockLog[2].sbnDiff = 0
  /\ blockLog[3].sbnDiff < 0
  /\ blockLog[4].sbnDiff > 1
  /\ sbnLast = blockLog[4].sbn

----------------------------------------------------------------------------
(* SpecSlip: one sender frame, SLIP-encoded and cut into in-order blocks *)

MaxFrameLen == 3
MaxSymbolLen == 3

\* The SBN of the first block: away from the wrap, and just before it
SlipStartSbns == {0, 254, 255}

SlipInit ==
  \E x \in SeqsUpTo(Bytes, MaxFrameLen) \ {<<>>}, L \in 1..MaxSymbolLen, a \in SlipStartSbns :
    /\ receiver_init(AUDIO_ENCODING_OPUS, 1, 1, MaxFrameLen, 4, 1, L)
    /\ endpointsec_init(1)
    /\ monitor_init
    /\ sender = [x |-> x, sbn |-> a, blocks |-> Blocks(utils_slipEncode(x), L), sent |-> <<>>]

\* The demux hands the sender's next block to the channel
DeliverBlock ==
  /\ sender.blocks # <<>>
  /\ onBlockCh1(Head(sender.blocks), sender.sbn, OkEnv)
  /\ sender' = [sender EXCEPT !.sbn = (@ + 1) % 256, !.blocks = Tail(@),
                              !.sent = Head(sender.blocks)]
  /\ UNCHANGED <<monitorVars, endpointVars>>

SlipNext == DeliverBlock

SpecSlip == SlipInit /\ [][SlipNext]_vars

\* C8: the SLIP encoding of a non-empty frame x of at most
\* maxEncodedPacketSize bytes, delivered in consecutive blocks cut at any
\* point, hands exactly one codec frame to decodePacket, and that frame is x.
C8_SlipRoundTrip ==
  (sender.x # <<>>) =>
    IF sender.blocks = <<>>
    THEN /\ frameCount = 1
         /\ Len(decodeLog) = 1
         /\ decodeLog[1].frame = sender.x
         /\ audioEncodedBufPos = 0 /\ ~slipEsc
    ELSE frameCount = 0

\* A frame of full length with both escapes, cut inside an escape pair
C8_Witness ==
  /\ sender.x = <<SLIP_ESC, SLIP_END, DataByte>>
  /\ Len(sender.x) = maxEncodedPacketSize
  /\ channel1.symbolLen = 3
  /\ sender.blocks = <<>>
  /\ Received = 2
  /\ frameCount = 1

----------------------------------------------------------------------------
(* SpecRaw: one block of arbitrary bytes into a fresh destuffer *)

RawInit ==
  \E buf \in SeqsOfLen(Bytes, 5) :
    /\ receiver_init(AUDIO_ENCODING_OPUS, 1, 1, 4, 4, 1, 5)
    /\ endpointsec_init(1)
    /\ monitor_init
    /\ sender = [x |-> <<>>, sbn |-> 0, blocks |-> <<buf>>, sent |-> <<>>]

RawNext == DeliverBlock

SpecRaw == RawInit /\ [][RawNext]_vars

EscapePayload == <<SLIP_ESC, SLIP_ESC_END, SLIP_END, SLIP_ESC, SLIP_ESC_ESC>>

Frames == [k \in 1..Len(decodeLog) |-> decodeLog[k].frame]

\* C9 (as claimed): destuffing DB DC C0 DB DD from an empty scratch emits
\* exactly one codec frame, the two bytes C0 DB.
C9_EscapeFrameTwoBytes ==
  (Received = 1 /\ sender.sent = EscapePayload)
  => Frames = << <<SLIP_END, SLIP_ESC>> >>

\* C9 (amended): destuffing DB DC C0 DB DD from an empty scratch emits exactly
\* one codec frame, the single byte C0 that precedes the END; the byte DB that
\* follows the END stays in the scratch, not yet delivered.
C9_EscapeFrameThenPending ==
  (Received = 1 /\ sender.sent = EscapePayload)
  => /\ Frames = << <<SLIP_END>> >>
     /\ frameCount = 1
     /\ audioEncodedBuf = <<SLIP_ESC>>
     /\ audioEncodedBufPos = 1
     /\ ~slipEsc

C9_Witness ==
  /\ Received = 1
  /\ sender.sent = EscapePayload
  /\ blockLog[1].slipDecoded
  /\ blockLog[1].result = 5

----------------------------------------------------------------------------
(* Spec: blocks in order with arbitrary payloads, codec results and resampler
   output, against the audio callback draining the ring *)

MaxBlocks == 4
MaxPeriod == 2
MaxUnderruns == 2

Init ==
  /\ \E enc \in {AUDIO_ENCODING_OPUS, AUDIO_ENCODING_PCM} :
       receiver_init(enc, 2, 1, 2, 4, 1, 2)
  /\ endpointsec_init(1)
  /\ monitor_init
  /\ sender = NoSender

\* A whole frame, the start of a frame, and an escape followed by a data byte
Payloads == {<<DataByte, SLIP_END>>, <<DataByte, DataByte>>, <<SLIP_ESC, DataByte>>}

\* demux delivers the next recovered block to channel 1
DemuxBlock ==
  /\ Received < MaxBlocks
  /\ \E buf \in Payloads, env \in DecodeEnvs :
       onBlockCh1(buf, IF sbnLast = -1 THEN 255 ELSE (sbnLast + 1) % 256, env)
  /\ UNCHANGED <<monitorVars, sender, endpointVars>>

\* The audio device asks for a period of frames
AudioCallback ==
  /\ \E frames \in 1..MaxPeriod :
       LET r == audioCallback(decodeRing, frames) IN
       /\ stats.bufferUnderrunCount + r.underruns <= MaxUnderruns
       /\ decodeRing' = r.ring
       /\ stats' = [stats EXCEPT !.bufferUnderrunCount = Add1ui(@, r.underruns)]
  /\ UNCHANGED <<monitorVars, config, sbnLast, audioEncodedBuf, audioEncodedBufPos, slipEsc, overrun,
                 blockLog, decodeLog, frameCount, sender, endpointVars>>

Next == DemuxBlock \/ AudioCallback

Spec == Init /\ [][Next]_vars

\* C10 (as claimed): once the overrun flag is set, no sample is enqueued until
\* the ring size has dropped below decodeRingMaxSize/2, and the flag is clear
\* after the enqueue that succeeds.
C10_ResumeBelowHalf ==
  /\ \A k \in 1..Len(decodeLog) :
       (decodeLog[k].overrunIn /\ decodeLog[k].pushed > 0)
       => 2 * decodeLog[k].ringIn < decodeRingMaxSize
  /\ (decodeLog # <<>> /\ decodeLog[Len(decodeLog)].pushed > 0) => ~overrun

\* C10 (amended): once the overrun flag is set, no sample is enqueued while
\* the ring size is above decodeRingMaxSize/2; enqueueing resumes once the ring
\* has dropped to decodeRingMaxSize/2 or below, and the flag is clear after the
\* enqueue that succeeds.
C10_ResumeAtHalf ==
  /\ \A k \in 1..Len(decodeLog) :
       (decodeLog[k].overrunIn /\ decodeLog[k].pushed > 0)
       => decodeLog[k].ringIn <= decodeRingMaxSize \div 2
  /\ (decodeLog # <<>> /\ decodeLog[Len(decodeLog)].pushed > 0) => ~overrun

C10_Witness ==
  /\ decodeLog # <<>>
  /\ decodeLog[1].overrunIn
  /\ decodeLog[1].pushed > 0
  /\ decodeLog[1].ringIn = decodeRingMaxSize \div 2
  /\ stats.bufferOverrunCount > 0
  /\ ~overrun

----------------------------------------------------------------------------
(* SpecLive: an endless stream of blocks, one decodable codec frame each,
   against an audio callback that keeps being called *)

MaxLiveCount == 2

LiveInit ==
  /\ receiver_init(AUDIO_ENCODING_OPUS, 2, 1, 2, 4, 1, 2)
  /\ endpointsec_init(1)
  /\ monitor_init
  /\ sender = NoSender

NextInOrder == IF sbnLast = -1 THEN 255 ELSE (sbnLast + 1) % 256

\* The resampler turns every frame of a block into outFrames frames
Resampled(outFrames) == [OkEnv EXCEPT !.resamp = [k \in 1..MaxCalls |-> outFrames]]

\* The next block in order carries one whole frame, which the codec decodes.
\* The block history is not kept, and the overrun counter stops the steps that
\* would take it above MaxLiveCount.
LiveBlock ==
  \E outFrames \in ResampledFrames :
    LET r == onBlockCh1Result(<<DataByte, SLIP_END>>, NextInOrder, Resampled(outFrames)) IN
    /\ r.stats.bufferOverrunCount <= MaxLiveCount
    /\ onBlockCh1State(r)
    /\ blockLog' = <<>>
    /\ frameCount' = 0
    /\ UNCHANGED <<monitorVars, sender, endpointVars>>

\* LiveBlock, written out for the scratch it meets (empty, no escape pending):
\* the block is in order, its frame goes to decodePacket, the scratch is empty
\* again.
DecodedBlock ==
  \E outFrames \in ResampledFrames :
    LET s == decodePacket([buf |-> <<DataByte>>, pos |-> 1, esc |-> FALSE,
                           overrun |-> overrun, ring |-> decodeRing, stats |-> stats,
                           log |-> <<>>, result |-> 0],
                          <<DataByte>>, CodecOk, outFrames) IN
    /\ audioEncodedBufPos = 0
    /\ ~slipEsc
    /\ s.stats.bufferOverrunCount <= MaxLiveCount
    /\ sbnLast' = NextSbnLast(sbnLast, NextInOrder, TRUE)
    /\ overrun' = s.overrun
    /\ decodeRing' = s.ring
    /\ stats' = s.stats
    /\ decodeLog' = s.log
    /\ blockLog' = <<>>
    /\ frameCount' = 0
    /\ UNCHANGED <<monitorVars, config, audioEncodedBuf, audioEncodedBufPos, slipEsc, sender, endpointVars>>

LiveNext == LiveBlock \/ AudioCallback

\* The audio device keeps calling back, and frames that decode keep arriving
SpecLive ==
  LiveInit /\ [][LiveNext]_vars /\ WF_vars(AudioCallback) /\ WF_vars(DecodedBlock)

\* C11: an overrun receiver always recovers: the ring drains to
\* decodeRingMaxSize/2 or below, the overrun flag is cleared and the samples of
\* a newly decoded frame are pushed into the ring.
C11_OverrunHeals ==
  overrun ~> (/\ ~overrun
              /\ decodeLog # <<>>
              /\ decodeLog[1].overrunIn
              /\ decodeLog[1].ringIn <= decodeRingMaxSize \div 2
              /\ decodeLog[1].pushed > 0)

C11_Witness ==
  /\ ~overrun
  /\ stats.bufferOverrunCount = MaxLiveCount
  /\ decodeLog # <<>>
  /\ decodeLog[1].overrunIn
  /\ 2 * decodeLog[1].ringIn < decodeRingMaxSize
  /\ decodeLog[1].pushed > 0

----------------------------------------------------------------------------
(* SpecRing: the decode ring for several channel counts and ring lengths:
   silence pre-fill, syncer pushes, dropped pushes and audio callbacks *)

MaxChannels == 2
MaxRingLength == 4
MaxRingBlocks == 4

RingInit ==
  /\ \E channels \in 1..MaxChannels, decodeRingLength \in 2..MaxRingLength :
       receiver_init(AUDIO_ENCODING_OPUS, channels, 1, 2, decodeRingLength, 1, 2)
  /\ endpointsec_init(1)
  /\ monitor_init
  /\ sender = NoSender

\* The next block in order carries one whole frame; the codec may fail on it
RingBlock ==
  /\ Received < MaxRingBlocks
  /\ \E env \in DecodeEnvs : onBlockCh1(<<DataByte, SLIP_END>>, NextInOrder, env)
  /\ UNCHANGED <<monitorVars, sender, endpointVars>>

RingNext == RingBlock \/ AudioCallback

SpecRing == RingInit /\ [][RingNext]_vars

\* C12: between pushes and callbacks the decode ring holds a multiple of
\* networkChannelCount samples, whatever the interleaving of the silence
\* pre-fill, syncer pushes, dropped pushes and audio callbacks with underruns.
C12_RingWholeFrames == decodeRing % networkChannelCount = 0

C12_Witness ==
  /\ networkChannelCount > 1
  /\ stats.bufferUnderrunCount > 0
  /\ stats.bufferOverrunCount > 0
  /\ decodeRing > 0
  /\ decodeRing < decodeRingMaxSize

\* C13: the decode ring never holds more than decodeRingMaxSize samples; a
\* push enqueues all its samples or, when they do not fit, none of them, and a
\* syncer push that is dropped leaves the overrun flag set.
C13_RingBounded ==
  /\ decodeRing <= decodeRingMaxSize
  /\ \A k \in 1..Len(decodeLog) :
       /\ decodeLog[k].result = -2 => decodeLog[k].pushed = 0
       /\ decodeLog[k].pushed > 0
          => /\ decodeLog[k].pushed = networkChannelCount * decodeLog[k].result
             /\ decodeLog[k].ringIn + decodeLog[k].pushed <= decodeRingMaxSize
  /\ (decodeLog # <<>> /\ decodeLog[Len(decodeLog)].result = -2) => overrun

C13_Witness ==
  /\ overrun
  /\ decodeLog # <<>>
  /\ decodeLog[Len(decodeLog)].result = -2
  /\ ~decodeLog[Len(decodeLog)].overrunIn
  /\ decodeRing = decodeLog[Len(decodeLog)].ringIn
  /\ decodeRing < decodeRingMaxSize

----------------------------------------------------------------------------
(* The threads of the secure endpoint: one receive thread per endpoint running
   onPeerPacket and, through the demux, onBlockCh1; the tick thread; and
   endpointsec_deinit. An action takes the inputs the environment may choose
   from as a record in: the engine's results for a datagram (results), what
   the sockets return to a send from onPeerPacket (packetErrs) and from
   tickLoop (tickErrs), and the number of datagrams received (datagrams) and
   of replies sent (sends) over all endpoints. *)

MaxEndpoints == 2
MaxReads == 3
MaxDatagrams == 2
MaxSends == 2

\* The length of a datagram. 11 is the size of the engine's "duplicate counter"
\* error; 20 is the length of the synthetic IPv4 header.
DatagramLens == {32}
\* The length of the engine's replies for the network (handshake traffic)
ReplyLen == 92
EngineReplies == {[op |-> WRITE_TO_NETWORK, size |-> 0], [op |-> WRITE_TO_NETWORK, size |-> ReplyLen]}
EngineLast == {[op |-> WIREGUARD_DONE, size |-> 0], [op |-> WIREGUARD_ERROR, size |-> 11],
               [op |-> WRITE_TO_TUNNEL_IPV4, size |-> 20],
               [op |-> WRITE_TO_TUNNEL_IPV4, size |-> 21]}
EngineResults == ResultSeqs(EngineReplies, EngineLast, MaxReads)
TickResults == {[op |-> WIREGUARD_DONE, size |-> 0],
                [op |-> WRITE_TO_NETWORK, size |-> ReplyLen]}

\* What wsocket_sendToPeer returns: sent, peer not known yet, send error
SendErrs == {0, -1, -2}
AllSent == [i \in Endpoints |-> 0]

\* The process runs: init has returned 0 and no call into a freed tunnel has
\* brought the process down
Alive == initPc.fn \in {"running", "shutdown"}

\* A call into the tunnel after tunnel_free is undefined: the engine may
\* return anything, or the process ends
TunnelCalls == IF tunnel = "freed" THEN {"returns", "crashes"} ELSE {"returns"}

\* A datagram arrives on endpoint epIndex: its receive thread runs onPeerPacket
\* up to the call of _onPacket (demux_readPacket)
PeerPacket(epIndex, in) ==
  /\ Alive
  /\ pc.recv[epIndex] = "recvfrom"
  /\ \E bufLen \in DatagramLens, results \in in.results,
        errs \in in.packetErrs, call \in TunnelCalls :
       LET s == onPeerPacket(bytesOut, bufLen, epIndex, results,
                             [k \in 1..MaxReads |-> errs])
       IN
       /\ Total(bytesIn) + bufLen + 28 <= in.datagrams * (bufLen + 28)
       /\ Total(s.out) <= in.sends * (ReplyLen + 28)
       /\ bytesIn' = [bytesIn EXCEPT ![epIndex] = Add1ui(@, bufLen + 28)]
       /\ IF call = "crashes"
          THEN /\ initPc' = [fn |-> "crashed", step |-> 0]
               /\ netLog' = [NoCall EXCEPT !.handler = "onPeerPacket", !.epIndex = epIndex,
                                           !.bufLen = bufLen, !.tunnel = tunnel]
               /\ UNCHANGED <<bytesOut, pc>>
          ELSE /\ bytesOut' = s.out
               /\ netLog' = [handler |-> "onPeerPacket", epIndex |-> epIndex,
                             bufLen |-> bufLen, tunnel |-> tunnel, reads |-> s.reads,
                             sends |-> s.sends, handed |-> s.handed]
               /\ pc' = [pc EXCEPT !.recv[epIndex] =
                           IF s.handed # <<>> THEN "demux_readPacket" ELSE "recvfrom"]
               /\ UNCHANGED initPc
  /\ UNCHANGED <<monitorVars, config, receiverVars, sender, endpointCount, threadsRunning, tunnel,
                 channelLock, initRet, held>>

\* Mutant: the channel is entered without looking at the lock
ChannelLockFree_Always(lock) == TRUE

\* demux: a thread enters the channel when no thread holds its lock
ChannelLockFree(lock) == lock = NoThread

\* demux_readPacket under the channel lock: the packet completes a block, and
\* the thread goes on into onBlock holding the lock, or it does not
DemuxReadPacket(epIndex) ==
  /\ Alive
  /\ pc.recv[epIndex] = "demux_readPacket"
  /\ ChannelLockFree(channelLock)
  /\ \E recovered \in BOOLEAN :
       /\ pc' = [pc EXCEPT !.recv[epIndex] = IF recovered THEN "onBlock" ELSE "recvfrom"]
       /\ channelLock' = IF recovered THEN epIndex ELSE channelLock
  /\ UNCHANGED <<monitorVars, config, receiverVars, sender, endpointCount, threadsRunning, tunnel,
                 bytesOut, bytesIn, initPc, initRet, held, netLog>>

\* The thread in onBlock runs onBlockCh1 on the block, leaves the channel and
\* goes back to its socket
OnBlock(epIndex) ==
  /\ Alive
  /\ pc.recv[epIndex] = "onBlock"
  /\ onBlockCh1(<<DataByte, SLIP_END>>, NextInOrder, OkEnv)
  /\ pc' = [pc EXCEPT !.recv[epIndex] = "recvfrom"]
  /\ channelLock' = NoThread
  /\ UNCHANGED <<monitorVars, sender, endpointCount, threadsRunning, tunnel, bytesOut, bytesIn,
                 initPc, initRet, held, netLog>>

\* endpoint-secure.c:43-77: one round of the tick thread's loop
TickLoop(in) ==
  /\ Alive
  /\ pc.tick = "tickLoop"
  /\ IF ~threadsRunning
     THEN /\ pc' = [pc EXCEPT !.tick = "exited"]
          /\ UNCHANGED <<bytesOut, netLog, initPc>>
     ELSE \E result \in TickResults, errs \in in.tickErrs, call \in TunnelCalls :
            LET r == sendBufToAll(bytesOut, result.size, errs)
                sent == result.op = WRITE_TO_NETWORK
            IN
            /\ Total(r.out) <= in.sends * (ReplyLen + 28)
            /\ netLog' = [NoCall EXCEPT !.handler = "tickLoop", !.tunnel = tunnel,
                                        !.sends = IF sent /\ call = "returns"
                                                  THEN <<r.send>> ELSE <<>>]
            /\ bytesOut' = IF sent /\ call = "returns" THEN r.out ELSE bytesOut
            /\ initPc' = IF call = "crashes" THEN [fn |-> "crashed", step |-> 0] ELSE initPc
            /\ UNCHANGED pc
  /\ UNCHANGED <<monitorVars, config, receiverVars, sender, endpointCount, threadsRunning, tunnel,
                 bytesIn, channelLock, initRet, held>>

\* endpoint-secure.c:217-230: the tunnel is freed; the flag, the joins and the
\* sockets are left alone, and the pointer is not reset
endpointsec_deinit ==
  /\ initPc.fn = "running"
  /\ initPc' = [fn |-> "shutdown", step |-> 0]
  /\ tunnel' = IF tunnel # "NULL" THEN "freed" ELSE tunnel
  /\ held' = IF tunnel # "NULL" THEN held \ {Res("tunnel", 0)} ELSE held
  /\ UNCHANGED <<monitorVars, config, receiverVars, sender, endpointCount, threadsRunning, bytesOut,
                 bytesIn, pc, channelLock, initRet, netLog>>

----------------------------------------------------------------------------
(* SpecNet: datagrams with every sequence of engine results on two endpoints,
   and tick replies with every outcome of the sends *)

NetInputs == [results |-> EngineResults, packetErrs |-> {AllSent},
              tickErrs |-> [Endpoints -> SendErrs],
              datagrams |-> MaxDatagrams, sends |-> MaxSends]

NetInit ==
  /\ receiver_init(AUDIO_ENCODING_OPUS, 2, 1, 2, 4, 1, 2)
  /\ endpointsec_init(MaxEndpoints)
  /\ monitor_init
  /\ sender = NoSender

NetNext ==
  \/ \E epIndex \in Endpoints : PeerPacket(epIndex, NetInputs)
  \/ \E epIndex \in Endpoints : DemuxReadPacket(epIndex)
  \/ \E epIndex \in Endpoints : OnBlock(epIndex)
  \/ TickLoop(NetInputs)

SpecNet == NetInit /\ [][NetNext]_vars

\* C18: every sendBufToAll call attempts a send on every endpoint, and leaves
\* bytesOut[i] higher by bufLen + 28 where the send succeeded and unchanged
\* where the peer is not known yet or the send failed.
C18_SendToAll ==
  /\ \A k \in 1..Len(netLog.sends) :
       LET sd == netLog.sends[k] IN
       /\ sd.attempted = Endpoints
       /\ \A i \in Endpoints :
            sd.after[i] = sd.before[i] + (IF sd.errs[i] = 0 THEN sd.bufLen + 28 ELSE 0)
       /\ k > 1 => sd.before = netLog.sends[k - 1].after
  /\ netLog.sends # <<>> => bytesOut = netLog.sends[Len(netLog.sends)].after

C18_Witness ==
  /\ netLog.sends # <<>>
  /\ netLog.sends[1].errs[0] = -1
  /\ netLog.sends[1].errs[1] = 0
  /\ netLog.sends[1].before[1] > 0
  /\ netLog.sends[1].after[1] > netLog.sends[1].before[1]
  /\ netLog.sends[1].after[0] = netLog.sends[1].before[0]

\* The wireguard_read calls of the latest onPeerPacket: the first reads the
\* datagram, each later one reads empty input after a WRITE_TO_NETWORK result,
\* and the last result is not WRITE_TO_NETWORK
ReadsUntilDone ==
  /\ netLog.reads[1].bufLen = netLog.bufLen
  /\ \A k \in 2..Len(netLog.reads) :
       /\ netLog.reads[k].bufLen = 0
       /\ netLog.reads[k - 1].result.op = WRITE_TO_NETWORK
  /\ netLog.reads[Len(netLog.reads)].result.op # WRITE_TO_NETWORK

LastRead == netLog.reads[Len(netLog.reads)].result
Plaintext == [offset |-> 20, len |-> LastRead.size - 20, epIndex |-> netLog.epIndex]

\* C19 (as claimed): whenever the engine returns WRITE_TO_TUNNEL_IPV4 for a
\* datagram of endpoint epIndex, the plaintext without its first 20 bytes is
\* handed to the demux with that epIndex; the engine is read again with empty
\* input after each WRITE_TO_NETWORK result until another result comes; at most
\* one plaintext per datagram reaches the demux.
C19_PlaintextToDemux ==
  (netLog.handler = "onPeerPacket" /\ netLog.reads # <<>>)
  => /\ ReadsUntilDone
     /\ Len(netLog.handed) <= 1
     /\ LastRead.op = WRITE_TO_TUNNEL_IPV4 => netLog.handed = <<Plaintext>>

\* C19 (amended): the plaintext is handed to the demux when the engine returns
\* WRITE_TO_TUNNEL_IPV4 with more than 20 bytes; a plaintext of 20 bytes or
\* fewer, and every other result, hands nothing on.
C19_LongPlaintextToDemux ==
  (netLog.handler = "onPeerPacket" /\ netLog.reads # <<>>)
  => /\ ReadsUntilDone
     /\ Len(netLog.handed) <= 1
     /\ netLog.handed = IF LastRead.op = WRITE_TO_TUNNEL_IPV4 /\ LastRead.size > 20
                        THEN <<Plaintext>> ELSE <<>>

C19_Witness ==
  /\ netLog.handler = "onPeerPacket"
  /\ Len(netLog.reads) = MaxReads
  /\ LastRead.op = WRITE_TO_TUNNEL_IPV4
  /\ netLog.handed = <<Plaintext>>
  /\ netLog.sends # <<>>
  /\ pc.recv[netLog.epIndex] = "demux_readPacket"

----------------------------------------------------------------------------
(* SpecThreads: the receive threads, the tick thread and the audio callback
   interleaved, with endpointsec_deinit called at any moment *)

\* A datagram carries a plaintext for the demux, or a handshake message that
\* the engine answers; every send succeeds
ThreadInputs ==
  [results |-> {<< [op |-> WRITE_TO_TUNNEL_IPV4, size |-> 21] >>,
                << [op |-> WRITE_TO_NETWORK, size |-> ReplyLen],
                   [op |-> WIREGUARD_DONE, size |-> 0] >>},
   packetErrs |-> {AllSent}, tickErrs |-> {AllSent},
   datagrams |-> MaxDatagrams, sends |-> MaxSends]

ThreadsNext ==
  \/ \E epIndex \in Endpoints : PeerPacket(epIndex, ThreadInputs)
  \/ \E epIndex \in Endpoints : DemuxReadPacket(epIndex)
  \/ \E epIndex \in Endpoints : OnBlock(epIndex)
  \/ TickLoop(ThreadInputs)
  \/ AudioCallback
  \/ endpointsec_deinit

SpecThreads == NetInit /\ [][ThreadsNext]_vars

InOnBlock == {i \in Endpoints : pc.recv[i] = "onBlock"}

\* C14: at most one receive thread at a time is inside onBlock for channel 1,
\* and it holds the channel lock; sbnLast, the destuffer's scratch and the
\* overrun flag change and the ring grows only in a step of that thread; the
\* ring shrinks only in a step in which no receive thread moves (the audio
\* callback).
C14_OneThreadInOnBlock ==
  /\ [](/\ Cardinality(InOnBlock) <= 1
        /\ \A i \in InOnBlock : channelLock = i)
  /\ [][(\/ <<sbnLast, audioEncodedBuf, audioEncodedBufPos, slipEsc, overrun>>'
             # <<sbnLast, audioEncodedBuf, audioEncodedBufPos, slipEsc, overrun>>
         \/ decodeRing' > decodeRing)
        => \E i \in Endpoints : /\ InOnBlock = {i}
                                /\ channelLock = i
                                /\ pc'.recv[i] = "recvfrom"
                                /\ channelLock' = NoThread]_vars
  /\ [][decodeRing' < decodeRing
        => UNCHANGED <<pc, channelLock, sbnLast, audioEncodedBuf, audioEncodedBufPos,
                       slipEsc, overrun, blockLog>>]_vars

C14_Witness ==
  /\ pc.recv[0] = "onBlock"
  /\ pc.recv[1] = "demux_readPacket"
  /\ channelLock = 0
  /\ stats.bufferUnderrunCount > 0

\* C15: once the tunnel is freed, threadsRunning is false and the tick thread
\* and the receive threads have ended, and no handler has called into a tunnel
\* that was freed.
C15_JoinBeforeFree ==
  /\ tunnel = "freed"
     => /\ ~threadsRunning
        /\ pc.tick = "exited"
        /\ \A i \in Endpoints : pc.recv[i] = "exited"
  /\ netLog.tunnel # "freed"

----------------------------------------------------------------------------
(* SpecInit: receiver_init and, as its last step, endpointsec_init, step by
   step; every step that can fail may fail *)

\* A step of an init function: the codes it returns when it fails (none when
\* it cannot fail or its result is not looked at) and what it acquires
Step(name, codes, acquires) == [step |-> name, codes |-> codes, acquires |-> acquires]

\* receiver.c:165-253
ReceiverSteps(enc) ==
  << Step("audioEncoding", {-1}, {}),
     Step("sampleBuf", {-1}, {Res("sampleBuf", 0)}),
     Step("audioEncodedBuf", {-2}, {Res("audioEncodedBuf", 0)}),
     Step("decodeRingBuf", {-3}, {Res("decodeRingBuf", 0)}),
     Step("demux_init", {-4}, {Res("demux", 0)}) >>
  \o (IF enc = AUDIO_ENCODING_OPUS
      THEN << Step("opus_multistream_decoder_create", {-5}, {Res("decoder", 0)}) >>
      ELSE << >>)
  \o << Step("enqueueSilence", {}, {}),
        Step("audio_init", {-6}, {Res("audio", 0)}),
        Step("audio_start", {-7}, {Res("audioStream", 0)}),
        Step("syncer_init", {-8}, {Res("syncer", 0)}),
        Step("keys", {-9}, {}),
        Step("endpointsec_init", {-10}, {}) >>

\* What wsocket_init may return when it fails
WsocketInitErrs == {-1, -2}

\* endpoint-secure.c:161-166
RECURSIVE SocketSteps(_, _)
SocketSteps(i, n) ==
  IF i >= n THEN << >>
  ELSE << Step("interface", {-4}, {}),
          Step("wsocket_init", {err - 4 : err \in WsocketInitErrs}, {Res("wsocket", i)}) >>
       \o SocketSteps(i + 1, n)

\* endpoint-secure.c:182-185
RECURSIVE DiscoverySteps(_, _)
DiscoverySteps(i, n) ==
  IF i >= n THEN << >>
  ELSE << Step("discoveryThread", {-17}, {Res("discoveryThread", i)}) >>
       \o DiscoverySteps(i + 1, n)

\* endpoint-secure.c:131-189
EndpointSteps(n) ==
  << Step("endpointCount", {-1}, {}),
     Step("malloc", {}, {Res("sockets", 0), Res("discoveryThreads", 0), Res("wgReadBuf", 0)}),
     Step("privateKey", {-2}, {}),
     Step("peerPublicKey", {-3}, {}) >>
  \o SocketSteps(0, n)
  \o << Step("new_tunnel", {-15}, {Res("tunnel", 0)}),
        Step("threadsRunning", {}, {}),
        Step("tickThread", {-16}, {Res("tickThread", 0)}) >>
  \o DiscoverySteps(0, n)

InitSteps(fn) ==
  IF fn = "receiver_init" THEN ReceiverSteps(audioEncoding) ELSE EndpointSteps(endpointCount)

\* What a step may come to: 0 when it succeeds, or one of its codes. The
\* encoding and the endpoint count are configuration: they decide their step.
Outcomes(st) ==
  IF st.step = "audioEncoding"
  THEN (IF audioEncoding \in {AUDIO_ENCODING_OPUS, AUDIO_ENCODING_PCM} THEN {0} ELSE st.codes)
  ELSE IF st.step = "endpointCount"
  THEN (IF endpointCount = 0 THEN st.codes ELSE {0})
  ELSE IF st.step = "endpointsec_init" THEN {0}
  ELSE st.codes \cup {0}

\* The receive thread of the endpoint a wsocket_init call is for
SocketOf(st) == (CHOOSE r \in st.acquires : TRUE).idx

\* The state a step that succeeded leaves behind
StepDone(st) ==
  /\ held' = held \cup st.acquires
  /\ decodeRing' = IF st.step = "enqueueSilence"
                   THEN enqueueSilence(decodeRing,
                                       (decodeRingMaxSize \div networkChannelCount) \div 2,
                                       networkChannelCount, decodeRingMaxSize).ring
                   ELSE decodeRing
  /\ pc' = IF st.step = "wsocket_init" THEN [pc EXCEPT !.recv[SocketOf(st)] = "recvfrom"]
           ELSE IF st.step = "tickThread" THEN [pc EXCEPT !.tick = "tickLoop"]
           ELSE pc
  /\ tunnel' = IF st.step = "new_tunnel" THEN "live" ELSE tunnel
  /\ threadsRunning' = IF st.step = "threadsRunning" THEN TRUE ELSE threadsRunning

\* The state before receiver_init: the configuration is read, nothing is
\* acquired, no thread runs
BeforeInit(enc, channels, frameSize, opusMaxPacketSize, decodeRingLength, K, L, n) ==
  LET known == enc \in {AUDIO_ENCODING_OPUS, AUDIO_ENCODING_PCM} IN
  /\ audioEncoding = enc
  /\ networkChannelCount = channels
  /\ audioFrameSize = IF known THEN frameSize ELSE 0
  /\ maxEncodedPacketSize = IF enc = AUDIO_ENCODING_OPUS THEN opusMaxPacketSize
                            ELSE IF known THEN 3 * channels * frameSize + 2 ELSE 0
  /\ decodeRingMaxSize = IF known THEN channels * decodeRingLength ELSE 0
  /\ channel1 = [chId |-> 1, symbolsPerBlock |-> K, symbolLen |-> L]
  /\ sbnLast = -1
  /\ audioEncodedBuf = <<>>
  /\ audioEncodedBufPos = 0
  /\ slipEsc = FALSE
  /\ overrun = FALSE
  /\ decodeRing = 0
  /\ stats = [dupBlockCount |-> 0, oooBlockCount |-> 0, codecErrorCount |-> 0,
              crcFailCount |-> 0, bufferOverrunCount |-> 0, bufferUnderrunCount |-> 0]
  /\ blockLog = <<>>
  /\ decodeLog = <<>>
  /\ frameCount = 0
  /\ channelLock = NoThread
  /\ endpointCount = n
  /\ threadsRunning = FALSE
  /\ tunnel = "NULL"
  /\ bytesOut = [i \in 0 .. (n - 1) |-> 0]
  /\ bytesIn = [i \in 0 .. (n - 1) |-> 0]
  /\ pc = [tick |-> "none", recv |-> [i \in 0 .. (n - 1) |-> "none"]]
  /\ netLog = NoCall
  /\ held = {}
  /\ wsClient = NULL
  /\ statsPc = "none"
  /\ streamMeterBinsRaw = [i \in Bins |-> 0]
  /\ streamMeterBinsMapped = [i \in Bins |-> 0]
  /\ wsOpen = {}
  /\ wsSent = <<>>
  /\ initPc = [fn |-> "receiver_init", step |-> 1]
  /\ initRet = [fn |-> "none", cause |-> "none", code |-> 0, receiver |-> 0]

InitInit ==
  /\ \E enc \in {AUDIO_ENCODING_OPUS, AUDIO_ENCODING_PCM, "OTHER"}, n \in 0..MaxEndpoints :
       BeforeInit(enc, 2, 1, 2, 4, 1, 2, n)
  /\ sender = NoSender

\* One step of receiver_init: it fails and receiver_init returns its code, or
\* it succeeds; the last step is the call of endpointsec_init
ReceiverInitStep ==
  /\ initPc.fn = "receiver_init"
  /\ LET st == ReceiverSteps(audioEncoding)[initPc.step] IN
     \E code \in Outcomes(st) :
       IF code < 0
       THEN /\ initPc' = [initPc EXCEPT !.fn = "failed"]
            /\ initRet' = [fn |-> "receiver_init", cause |-> st.step, code |-> code,
                           receiver |-> code]
            /\ UNCHANGED <<held, decodeRing, pc, tunnel, threadsRunning>>
       ELSE /\ initPc' = IF st.step = "endpointsec_init"
                         THEN [fn |-> "endpointsec_init", step |-> 1]
                         ELSE [initPc EXCEPT !.step = @ + 1]
            /\ StepDone(st)
            /\ UNCHANGED initRet
  /\ UNCHANGED <<monitorVars, config, sbnLast, audioEncodedBuf, audioEncodedBufPos, slipEsc, overrun,
                 stats, blockLog, decodeLog, frameCount, sender, endpointCount, bytesOut,
                 bytesIn, channelLock, netLog>>

\* One step of endpointsec_init: it fails, endpointsec_init returns its code
\* and receiver_init returns -10, or it succeeds; after the last step both
\* return 0
EndpointsecInitStep ==
  /\ initPc.fn = "endpointsec_init"
  /\ LET steps == EndpointSteps(endpointCount)
         st == steps[initPc.step]
     IN
     \E code \in Outcomes(st) :
       IF code < 0
       THEN /\ initPc' = [initPc EXCEPT !.fn = "failed"]
            /\ initRet' = [fn |-> "endpointsec_init", cause |-> st.step, code |-> code,
                           receiver |-> -10]
            /\ UNCHANGED <<held, decodeRing, pc, tunnel, threadsRunning>>
       ELSE /\ initPc' = IF initPc.step = Len(steps)
                         THEN [fn |-> "running", step |-> 0]
                         ELSE [initPc EXCEPT !.step = @ + 1]
            /\ StepDone(st)
            /\ UNCHANGED initRet
  /\ UNCHANGED <<monitorVars, config, sbnLast, audioEncodedBuf, audioEncodedBufPos, slipEsc, overrun,
                 stats, blockLog, decodeLog, frameCount, sender, endpointCount, bytesOut,
                 bytesIn, channelLock, netLog>>

InitNext == ReceiverInitStep \/ EndpointsecInitStep

SpecInit == InitInit /\ [][InitNext]_vars

\* C16: when receiver_init or endpointsec_init has failed, nothing acquired by
\* the earlier steps is still held: no buffer, decoder, socket or tunnel, and
\* no thread that was started still runs.
C16_FailedInitReleasesAll ==
  initPc.fn = "failed"
  => /\ held = {}
     /\ tunnel # "live"
     /\ ~threadsRunning
     /\ pc.tick = "none"
     /\ \A i \in Endpoints : pc.recv[i] = "none"

\* C17: the code an init function returns on failure is returned for no other
\* cause of that function, and 0 is returned only after every step succeeded.
C17_CodeNamesCause ==
  /\ initPc.fn = "failed"
     => \A k \in 1..Len(InitSteps(initRet.fn)) :
          InitSteps(initRet.fn)[k].step # initRet.cause
          => initRet.code \notin InitSteps(initRet.fn)[k].codes
  /\ initPc.fn = "running"
     => /\ initRet.receiver = 0
        /\ held = ReceiverResources(audioEncoding) \cup EndpointResources(endpointCount)

----------------------------------------------------------------------------
(* SpecCodec: blocks of two codec frames each, with every codec result *)

MaxCodecBlocks == 2

\* Two one-byte frames
TwoFrames == <<DataByte, SLIP_END, DataByte, SLIP_END>>

CodecInit ==
  /\ \E enc \in {AUDIO_ENCODING_OPUS, AUDIO_ENCODING_PCM} :
       receiver_init(enc, 2, 1, 2, 4, 1, Len(TwoFrames))
  /\ endpointsec_init(1)
  /\ monitor_init
  /\ sender = NoSender

CodecBlock ==
  /\ Received < MaxCodecBlocks
  /\ \E env \in DecodeEnvs : onBlockCh1(TwoFrames, NextInOrder, env)
  /\ UNCHANGED <<monitorVars, sender, endpointVars>>

CodecNext == CodecBlock

SpecCodec == CodecInit /\ [][CodecNext]_vars

\* The decodePacket calls of the latest block whose frame the codec rejected
FailedFrames(log) == {k \in 1..Len(log) : log[k].codec # CodecOk}

\* C20: every frame of a block is handed to the codec; a frame the codec
\* rejects pushes no sample and adds one to codecErrorCount (Opus) or to
\* crcFailCount (PCM), whatever the codec's error.
C20_FailedFramesCounted ==
  [][Received' = Received + 1
     => /\ Len(decodeLog') = 2
        /\ \A k \in FailedFrames(decodeLog') : decodeLog'[k].pushed = 0
        /\ stats'.codecErrorCount - stats.codecErrorCount
           = IF audioEncoding = AUDIO_ENCODING_OPUS
             THEN Cardinality(FailedFrames(decodeLog')) ELSE 0
        /\ stats'.crcFailCount - stats.crcFailCount
           = IF audioEncoding = AUDIO_ENCODING_PCM
             THEN Cardinality(FailedFrames(decodeLog')) ELSE 0]_vars

----------------------------------------------------------------------------
(* SpecDestuff: in-order blocks of arbitrary bytes into the destuffer *)

MaxDestuffBlocks == 2

DestuffInit ==
  /\ receiver_init(AUDIO_ENCODING_OPUS, 1, 1, 2, 4, 1, 3)
  /\ endpointsec_init(1)
  /\ monitor_init
  /\ sender = NoSender

\* The demux delivers the next block in order, whatever its bytes are
DestuffBlock ==
  /\ Received < MaxDestuffBlocks
  /\ \E buf \in SeqsOfLen(Bytes, BlockLen) :
       /\ onBlockCh1(buf, NextInOrder, OkEnv)
       /\ sender' = [sender EXCEPT !.sent = buf]
  /\ UNCHANGED <<monitorVars, endpointVars>>

DestuffNext == DestuffBlock

SpecDestuff == DestuffInit /\ [][DestuffNext]_vars

\* The destuffer as an in-order block finds it
DestufferNow ==
  [buf |-> audioEncodedBuf, pos |-> audioEncodedBufPos, esc |-> slipEsc,
   overrun |-> overrun, ring |-> decodeRing, stats |-> stats,
   log |-> <<>>, result |-> 0]

LastBlock == blockLog[Received]

\* The block handled by this step failed in the destuffer
BlockFailed == /\ Received' = Received + 1
               /\ LastBlock'.slipDecoded
               /\ LastBlock'.result < 0

\* The shortest prefixes of buf on which the destuffer fails
FailingPrefix(buf) ==
  {n \in 1..BlockLen :
     /\ slipDecodeBlock(DestufferNow, buf, n, OkEnv).result < 0
     /\ n > 1 => slipDecodeBlock(DestufferNow, buf, n - 1, OkEnv).result >= 0}

\* C21: a block in which the destuffer fails (an escape followed by a byte
\* other than DC or DD, or a byte for a full scratch) has the effect of its
\* bytes up to the failing one and of none after it, and the handler leaves
\* the scratch empty and the escape flag clear for the next block.
C21_ErrorStopsAndResets ==
  [][BlockFailed =>
       /\ LastBlock'.result \in {-1, -2, -3, -4}
       /\ \E n \in FailingPrefix(sender'.sent) :
            LET p == slipDecodeBlock(DestufferNow, sender'.sent, n, OkEnv) IN
            /\ LastBlock'.result = p.result
            /\ decodeLog' = p.log
            /\ decodeRing' = p.ring
            /\ stats' = p.stats
            /\ overrun' = p.overrun
       /\ audioEncodedBufPos' = 0
       /\ audioEncodedBuf' = <<>>
       /\ ~slipEsc']_vars

\* A second block fails at a bad escape in its second byte, with a frame
\* delimiter after it, and the destuffer is reset
C21_Witness ==
  /\ Received = 2
  /\ blockLog[1].result = BlockLen
  /\ sender.sent = <<SLIP_ESC, DataByte, SLIP_END>>
  /\ blockLog[2].result = -3
  /\ decodeLog = <<>>
  /\ audioEncodedBufPos = 0
  /\ ~slipEsc

\* The destuffer would store byte b, as it is or as the byte it escapes
Stored(b) == IF slipEsc THEN b \in {SLIP_ESC_END, SLIP_ESC_ESC}
             ELSE b \notin {SLIP_END, SLIP_ESC}

\* C22: the scratch position stays within 0..maxEncodedPacketSize, every codec
\* frame handed to decodePacket has 1 to maxEncodedPacketSize bytes (an END on
\* an empty scratch delivers nothing), and a block whose first byte would be
\* stored into a full scratch makes slipDecodeBlock return a negative code
\* with nothing delivered.
C22_ScratchBounded ==
  /\ [](/\ 0 <= audioEncodedBufPos
        /\ audioEncodedBufPos <= maxEncodedPacketSize
        /\ Len(audioEncodedBuf) = audioEncodedBufPos
        /\ \A k \in 1..Len(decodeLog) :
             /\ Len(decodeLog[k].frame) >= 1
             /\ Len(decodeLog[k].frame) <= maxEncodedPacketSize)
  /\ [][(/\ Received' = Received + 1
         /\ audioEncodedBufPos = maxEncodedPacketSize
         /\ Stored(sender'.sent[1]))
        => /\ LastBlock'.result \in {-1, -2, -4}
           /\ decodeLog' = <<>>]_vars
  /\ [][(/\ Received' = Received + 1
         /\ audioEncodedBufPos = 0
         /\ ~slipEsc
         /\ \A i \in 1..BlockLen : sender'.sent[i] = SLIP_END)
        => /\ LastBlock'.result = BlockLen
           /\ decodeLog' = <<>>
           /\ audioEncodedBufPos' = 0]_vars

\* A first block fills the scratch and ends in an escape; the escaped END that
\* opens the second block finds no room
C22_Witness ==
  /\ Received = 2
  /\ blockLog[1].result = BlockLen
  /\ sender.sent[1] = SLIP_ESC_END
  /\ blockLog[2].result = -1
  /\ decodeLog = <<>>

----------------------------------------------------------------------------
(* SpecMonitor: the stats thread of the monitor against the WebSocket
   thread's open and close handlers *)

MaxClients == 2
MaxBinCount == 3

Clients == 1..MaxClients

\* What the reads of streamMeterBins may return
BinSamples == [Bins -> 0..MaxBinCount]

MonitorInit ==
  /\ receiver_init(AUDIO_ENCODING_OPUS, 2, 1, 2, 4, 1, 2)
  /\ endpointsec_init(1)
  /\ monitor_init
  /\ sender = NoSender

\* The WebSocket thread: a client connects
OpenHandler ==
  /\ \E ws \in Clients \ wsOpen :
       /\ openHandler(ws)
       /\ wsOpen' = wsOpen \cup {ws}
  /\ UNCHANGED <<config, receiverVars, sender, endpointVars, statsPc,
                 streamMeterBinsRaw, streamMeterBinsMapped, wsSent>>

\* The WebSocket thread: a connection is closed
CloseHandler ==
  /\ \E ws \in wsOpen :
       /\ closeHandler(ws)
       /\ wsOpen' = wsOpen \ {ws}
  /\ UNCHANGED <<config, receiverVars, sender, endpointVars, statsPc,
                 streamMeterBinsRaw, streamMeterBinsMapped, wsSent>>

\* monitor.cpp:130-131: the stats thread wakes up and looks for a client
StatsWake ==
  /\ statsPc = "usleep"
  /\ statsPc' = IF wsClient = NULL THEN "usleep" ELSE "snapshot"
  /\ UNCHANGED <<config, receiverVars, sender, endpointVars, wsClient,
                 streamMeterBinsRaw, streamMeterBinsMapped, wsOpen, wsSent>>

\* monitor.cpp:150-197: the stats thread fills in the snapshot
StatsSnapshot ==
  /\ statsPc = "snapshot"
  /\ \E sample \in BinSamples :
       LET r == mapStreamMeterBins(sample, streamMeterBinsMapped) IN
       /\ streamMeterBinsRaw' = r.rawBins
       /\ streamMeterBinsMapped' = r.mappedBins
  /\ statsPc' = "uws_wsSend"
  /\ UNCHANGED <<config, receiverVars, sender, endpointVars, wsClient, wsOpen, wsSent>>

\* monitor.cpp:198: the stats thread reads wsClient again and sends
StatsSend ==
  /\ statsPc = "uws_wsSend"
  /\ wsSent' = <<wsClient>>
  /\ statsPc' = "usleep"
  /\ UNCHANGED <<config, receiverVars, sender, endpointVars, wsClient,
                 streamMeterBinsRaw, streamMeterBinsMapped, wsOpen>>

MonitorNext == OpenHandler \/ CloseHandler \/ StatsWake \/ StatsSnapshot \/ StatsSend

SpecMonitor == MonitorInit /\ [][MonitorNext]_vars

\* C23 (as claimed): when the sampled bins are not all equal, the mapped
\* bins keep the order of the raw bins, every bin with a count above zero is
\* mapped above zero, and the largest bin is mapped to 255.
C23_RankPreserving ==
  (\E i, j \in Bins : streamMeterBinsRaw[i] # streamMeterBinsRaw[j]) =>
    /\ \A i, j \in Bins :
         streamMeterBinsRaw[i] <= streamMeterBinsRaw[j]
         => streamMeterBinsMapped[i] <= streamMeterBinsMapped[j]
    /\ \A i \in Bins :
         streamMeterBinsRaw[i] > 0 => streamMeterBinsMapped[i] > 0
    /\ \A i \in Bins :
         (\A j \in Bins : streamMeterBinsRaw[j] <= streamMeterBinsRaw[i])
         => streamMeterBinsMapped[i] = 255

\* C25 (as claimed): uws_wsSend is never called with a NULL client.
C25_SendsToClient ==
  \A k \in 1..Len(wsSent) : wsSent[k] # NULL

----------------------------------------------------------------------------
(* SpecStream: a sender's SLIP stream of several frames, cut into blocks that
   arrive with gaps, repeats and late blocks *)

MaxStreamFrameLen == 3
StreamFrameCount == 2
MaxStreamBlocks == 4

\* The SBN of the sender's first block: away from the wrap, and just before it
StreamStartSbns == {0, 254}

\* The frames a sender may encode: up to one byte longer than the receiver's
\* scratch, with and without bytes that need an escape
StreamFrames == SeqsUpTo({DataByte, SLIP_ESC}, MaxStreamFrameLen) \ {<<>>}

RECURSIVE SlipStream(_)
SlipStream(frames) ==
  IF frames = <<>> THEN <<>>
  ELSE utils_slipEncode(Head(frames)) \o SlipStream(Tail(frames))

\* frames: the frames the sender encoded; blocks: all blocks of its stream;
\* sbn: the SBN of its first block; at: the index of the block delivered last
StreamInit ==
  \E frames \in SeqsOfLen(StreamFrames, StreamFrameCount), a \in StreamStartSbns :
    /\ receiver_init(AUDIO_ENCODING_OPUS, 1, 1, MaxStreamFrameLen - 1, 4, 1, 2)
    /\ endpointsec_init(1)
    /\ monitor_init
    /\ sender = [x |-> <<>>, frames |-> frames, sbn |-> a,
                 blocks |-> Blocks(SlipStream(frames), 2), sent |-> <<>>, at |-> 0]

\* The blocks that may arrive next: the stream's first block first; then the
\* one delivered last again, the one before it, the next, or the one after
\* the next
StreamArrivals ==
  IF sender.at = 0 THEN {1}
  ELSE {sender.at - 1, sender.at, sender.at + 1, sender.at + 2}
       \cap (1..Len(sender.blocks))

\* The demux delivers block j of the sender's stream to channel 1
StreamBlock ==
  /\ Received < MaxStreamBlocks
  /\ \E j \in StreamArrivals :
       /\ onBlockCh1(sender.blocks[j], (sender.sbn + j - 1) % 256, OkEnv)
       /\ sender' = [sender EXCEPT !.sent = sender.blocks[j], !.at = j]
  /\ UNCHANGED <<monitorVars, endpointVars>>

StreamNext == StreamBlock

SpecStream == StreamInit /\ [][StreamNext]_vars

\* C24 (as claimed): every codec frame handed to decodePacket is one of the
\* sender's frames, whole; a piece of a sender frame is never delivered.
C24_OnlyWholeFrames ==
  \A k \in 1..Len(decodeLog) :
    \E n \in 1..Len(sender.frames) : decodeLog[k].frame = sender.frames[n]

====
